---- MODULE Spec2Model ----
(***************************************************************************)
(* done-o-saur (src/main.py): categories, to-dos, subtasks and the         *)
(* "got done" log, kept in four SQLite tables and changed by Flask request *)
(* handlers.  A state of the model is a durable state of the database:     *)
(* every action ends with one db.session.commit() of the handler it        *)
(* belongs to, and a handler that commits several times is a sequence of   *)
(* actions with its position in pc.                                        *)
(***************************************************************************)
EXTENDS Integers, FiniteSets, Sequences

\* ------------------------------ bounds -------------------------------- *\
MaxDay == 2
MaxToDoId == 2
MaxSubTaskId == 2
MaxGotDoneId == 2

Days == 1..MaxDay
CategoryNames == {"Home", "Work"}
ToDoNames == {"Taxes"}
SubTaskNames == {"Receipts"}

VARIABLES
    categories,   \* table categories: id -> name
    to_dos,       \* table to_dos:     id -> [name, parent_id, due_date]
    subtasks,     \* table subtasks:   id -> [name, due_date, to_do_id, category]
    got_dones,    \* table got_dones:  id -> [name, category, date]
    today,        \* dt.datetime.now().date()
    pc,           \* the handler that is between two of its commits,
                  \* "responded" once a handler has returned, else "idle"
    req,          \* the multi-commit request being served / last served
    pre,          \* the tables as they stood when that request began
    response,     \* what the last handler returned (template or redirect)
    flashed,      \* message passed to flash() by the last handler, or ""
    all_to_dos    \* rows handed to index.html by dashboard

store == <<categories, to_dos, subtasks, got_dones>>
vars == <<categories, to_dos, subtasks, got_dones, today, pc, req, pre,
          response, flashed, all_to_dos>>

\* ------------------------------ tables -------------------------------- *\
Empty == <<>>

Max(S) == CHOOSE m \in S : \A x \in S : x <= m

\* INTEGER PRIMARY KEY without AUTOINCREMENT: the next rowid is max + 1
NextId(table) == IF DOMAIN table = {} THEN 1 ELSE Max(DOMAIN table) + 1

Insert(table, row) ==
    [i \in DOMAIN table \cup {NextId(table)} |->
        IF i \in DOMAIN table THEN table[i] ELSE row]

Delete(table, id) == [i \in DOMAIN table \ {id} |-> table[i]]

Snapshot == [categories |-> categories, to_dos |-> to_dos,
             subtasks |-> subtasks, got_dones |-> got_dones]
NoPre == [categories |-> Empty, to_dos |-> Empty,
          subtasks |-> Empty, got_dones |-> Empty]
NoReq == [op |-> "", id |-> 0, rem |-> {}]

\* ------------------------------ helpers ------------------------------- *\
\* Categories.name is unique=True: an INSERT or UPDATE that would give two
\* rows the same name raises IntegrityError and the commit is rolled back
UniqueViolation(name, id) ==
    \E c \in DOMAIN categories : c # id /\ categories[c] = name

\* Categories.query.filter_by(name=...).first()
CategoryByName(name) == CHOOSE c \in DOMAIN categories : categories[c] = name

\* str(to_do.parent_category): Categories.__repr__ returns the name
ParentCategoryName(t) == categories[to_dos[t].parent_id]

\* to_do.subtasks (the ids of the rows the relationship loads)
SubtasksOf(t) == {s \in DOMAIN subtasks : subtasks[s].to_do_id = t}

\* the relationship is loaded ORDER BY due_date: the next row of an iteration
\* is one of the remaining rows with the least due_date
Earliest(rem) ==
    {s \in rem : \A r \in rem : subtasks[s].due_date <= subtasks[r].due_date}

\* date_check: ValidationError when field.data < today
date_check(d) == ~(d < today)

\* ------------------------------ rows ---------------------------------- *\
\* mutant: the record is dated with the to-do's due date
GotDoneOfToDo_DueDate(t) ==
    [name |-> to_dos[t].name, category |-> ParentCategoryName(t),
     date |-> to_dos[t].due_date]

\* mark_done, lines 253-257
GotDoneOfToDo(t) ==
    [name |-> to_dos[t].name, category |-> ParentCategoryName(t),
     date |-> today]

\* mark_done, lines 263-267, and mark_done_sub, lines 305-309
GotDoneOfSubTask(s) ==
    [name |-> subtasks[s].name, category |-> subtasks[s].category,
     date |-> today]

\* mutant: no comparison with the to-do's due date
PastParent_Never(d, t) == FALSE

\* mutant: the comparison is off by one day
PastParent_OffByOne(d, t) == d > to_dos[t].due_date + 1

\* add_new_subtask, line 190
PastParent(d, t) == d > to_dos[t].due_date

\* mutant: the subtask keeps the label it has
Relabelled_Kept(s, t) == subtasks[s]

\* update_to_do, line 241
Relabelled(s, t) == [subtasks[s] EXCEPT !.category = ParentCategoryName(t)]

\* db.session.delete(to_do) + commit: the row goes, and the unit of work sets
\* to_do_id of every row still in to_do.subtasks to NULL (0), the relationship
\* having no delete cascade
DeleteToDo(t) ==
    /\ to_dos' = Delete(to_dos, t)
    /\ subtasks' = [s \in DOMAIN subtasks |->
                      IF subtasks[s].to_do_id = t
                      THEN [subtasks[s] EXCEPT !.to_do_id = 0]
                      ELSE subtasks[s]]

\* the rows order_by(asc(ToDos.due_date)) may return: every row once, by
\* due_date; SQL leaves the order of rows with equal due_date open
OrderedByDueDate ==
    {q \in [1..Cardinality(DOMAIN to_dos) -> DOMAIN to_dos] :
        /\ \A i, j \in DOMAIN q : i # j => q[i] # q[j]
        /\ \A i, j \in DOMAIN q :
              i < j => to_dos[q[i]].due_date <= to_dos[q[j]].due_date}

\* ------------------------------ responses ----------------------------- *\
\* a handler that returns after at most one commit
Returns(page, message) ==
    /\ pc' = "responded"
    /\ req' = NoReq
    /\ pre' = NoPre
    /\ response' = page
    /\ flashed' = message
    /\ all_to_dos' = <<>>
    /\ UNCHANGED today

Init ==
    /\ categories = Empty
    /\ to_dos = Empty
    /\ subtasks = Empty
    /\ got_dones = Empty
    /\ today = 1
    /\ pc = "idle"
    /\ req = NoReq
    /\ pre = NoPre
    /\ response = ""
    /\ flashed = ""
    /\ all_to_dos = <<>>

\* ------------------------------ handlers ------------------------------ *\
dashboard ==
    /\ pc = "idle"
    /\ \E q \in OrderedByDueDate : all_to_dos' = q
    /\ pc' = "responded" /\ req' = NoReq /\ pre' = NoPre
    /\ response' = "index.html" /\ flashed' = ""
    /\ UNCHANGED <<store, today>>

\* mutant: the commit goes through whatever the name
add_new_category_NoConstraint(name) ==
    /\ pc = "idle"
    /\ categories' = Insert(categories, name)
    /\ UNCHANGED <<to_dos, subtasks, got_dones>>
    /\ Returns("redirect:show_category", "")

add_new_category(name) ==
    /\ pc = "idle"
    /\ IF UniqueViolation(name, 0)
       THEN /\ UNCHANGED store
            /\ Returns("redirect:show_category", "This Category already exists!")
       ELSE /\ categories' = Insert(categories, name)
            /\ UNCHANGED <<to_dos, subtasks, got_dones>>
            /\ Returns("redirect:show_category", "")

\* mutant: the UPDATE goes through whatever the name
update_category_NoConstraint(category_id, name) ==
    /\ pc = "idle"
    /\ category_id \in DOMAIN categories
    /\ categories' = [categories EXCEPT ![category_id] = name]
    /\ UNCHANGED <<to_dos, subtasks, got_dones>>
    /\ Returns("redirect:show_category", "")

update_category(category_id, name) ==
    /\ pc = "idle"
    /\ category_id \in DOMAIN categories
    /\ IF UniqueViolation(name, category_id)
       THEN /\ UNCHANGED store
            /\ Returns("500 IntegrityError", "")
       ELSE /\ categories' = [categories EXCEPT ![category_id] = name]
            /\ UNCHANGED <<to_dos, subtasks, got_dones>>
            /\ Returns("redirect:show_category", "")

add_new_to_do(name, category, due_date) ==
    /\ pc = "idle"
    /\ \E c \in DOMAIN categories : categories[c] = category
    /\ IF ~date_check(due_date)
       THEN /\ UNCHANGED store
            /\ Returns("add-new-to-do.html", "")
       ELSE /\ NextId(to_dos) <= MaxToDoId
            /\ to_dos' = Insert(to_dos, [name |-> name,
                                         parent_id |-> CategoryByName(category),
                                         due_date |-> due_date])
            /\ UNCHANGED <<categories, subtasks, got_dones>>
            /\ Returns("redirect:show_to_do", "")

add_new_subtask(to_do_id, name, due_date) ==
    /\ pc = "idle"
    /\ to_do_id \in DOMAIN to_dos
    /\ IF ~date_check(due_date)
       THEN /\ UNCHANGED store
            /\ Returns("add-new-subtask.html", "")
       ELSE IF PastParent(due_date, to_do_id)
       THEN /\ UNCHANGED store
            /\ Returns("add-new-subtask.html",
                       "Due Date of Subtask can't be past Due Date of To Do")
       ELSE /\ NextId(subtasks) <= MaxSubTaskId
            /\ subtasks' = Insert(subtasks,
                                  [name |-> name, due_date |-> due_date,
                                   to_do_id |-> to_do_id,
                                   category |-> ParentCategoryName(to_do_id)])
            /\ UNCHANGED <<categories, to_dos, got_dones>>
            /\ Returns("redirect:show_to_do", "")

\* update_to_do up to its first commit (line 238)
update_to_do(to_do_id, name, category, due_date) ==
    /\ pc = "idle"
    /\ to_do_id \in DOMAIN to_dos
    /\ \E c \in DOMAIN categories : categories[c] = category
    /\ IF ~date_check(due_date)
       THEN /\ UNCHANGED store
            /\ Returns("update-to-do.html", "")
       ELSE /\ to_dos' = [to_dos EXCEPT ![to_do_id] =
                            [name |-> name,
                             parent_id |-> CategoryByName(category),
                             due_date |-> due_date]]
            /\ UNCHANGED <<categories, subtasks, got_dones, today>>
            /\ req' = [op |-> "update_to_do", id |-> to_do_id,
                       rem |-> SubtasksOf(to_do_id)]
            /\ pre' = NoPre
            /\ flashed' = "" /\ all_to_dos' = <<>>
            /\ IF SubtasksOf(to_do_id) = {}
               THEN pc' = "responded" /\ response' = "redirect:show_to_do"
               ELSE pc' = "update_to_do" /\ response' = ""

\* one turn of the loop of lines 240-242
update_to_do_subtask ==
    /\ pc = "update_to_do"
    /\ \E s \in Earliest(req.rem) :
          /\ subtasks' = [subtasks EXCEPT ![s] = Relabelled(s, req.id)]
          /\ req' = [req EXCEPT !.rem = @ \ {s}]
          /\ IF req.rem = {s}
             THEN pc' = "responded" /\ response' = "redirect:show_to_do"
             ELSE pc' = pc /\ response' = response
    /\ UNCHANGED <<categories, to_dos, got_dones, today, pre, flashed,
                   all_to_dos>>

\* mark_done up to its first commit (line 259)
mark_done(to_do_id) ==
    /\ pc = "idle"
    /\ to_do_id \in DOMAIN to_dos
    /\ NextId(got_dones) + Cardinality(SubtasksOf(to_do_id)) <= MaxGotDoneId
    /\ got_dones' = Insert(got_dones, GotDoneOfToDo(to_do_id))
    /\ UNCHANGED <<categories, to_dos, subtasks, today>>
    /\ req' = [op |-> "mark_done", id |-> to_do_id,
               rem |-> SubtasksOf(to_do_id)]
    /\ pre' = Snapshot
    /\ flashed' = "" /\ all_to_dos' = <<>>
    /\ IF SubtasksOf(to_do_id) = {}
       THEN pc' = "responded" /\ response' = "redirect:delete_with_sub"
       ELSE pc' = "mark_done" /\ response' = ""

\* one turn of the loop of lines 262-269
mark_done_subtask ==
    /\ pc = "mark_done"
    /\ \E s \in Earliest(req.rem) :
          /\ got_dones' = Insert(got_dones, GotDoneOfSubTask(s))
          /\ req' = [req EXCEPT !.rem = @ \ {s}]
          /\ IF req.rem = {s}
             THEN pc' = "responded" /\ response' = "redirect:delete_with_sub"
             ELSE pc' = pc /\ response' = response
    /\ UNCHANGED <<categories, to_dos, subtasks, today, pre, flashed,
                   all_to_dos>>

\* mutant: the to-do is deleted without a look at its subtasks
delete_Unguarded(to_do_id) ==
    /\ pc = "idle"
    /\ to_do_id \in DOMAIN to_dos
    /\ DeleteToDo(to_do_id)
    /\ UNCHANGED <<categories, got_dones>>
    /\ Returns("redirect:dashboard", "")

delete(to_do_id) ==
    /\ pc = "idle"
    /\ to_do_id \in DOMAIN to_dos
    /\ IF SubtasksOf(to_do_id) # {}
       THEN /\ UNCHANGED store
            /\ Returns("show-to-do.html",
                       "You have subtasks that haven't been done yet!")
       ELSE /\ DeleteToDo(to_do_id)
            /\ UNCHANGED <<categories, got_dones>>
            /\ Returns("redirect:dashboard", "")

\* mutant: the to-do is deleted and committed before its subtasks
Cascade_ToDoFirst(to_do_id, rem, op) ==
    IF to_do_id \in DOMAIN to_dos
    THEN /\ DeleteToDo(to_do_id)
         /\ req' = [op |-> op, id |-> to_do_id, rem |-> rem]
         /\ IF rem = {}
            THEN pc' = "responded" /\ response' = "redirect:dashboard"
            ELSE pc' = "delete_with_sub" /\ response' = ""
    ELSE \E s \in Earliest(rem) :
            /\ subtasks' = Delete(subtasks, s)
            /\ to_dos' = to_dos
            /\ req' = [op |-> op, id |-> to_do_id, rem |-> rem \ {s}]
            /\ IF rem = {s}
               THEN pc' = "responded" /\ response' = "redirect:dashboard"
               ELSE pc' = "delete_with_sub" /\ response' = ""

\* the next commit of delete_with_sub: a subtask of the loop of lines
\* 292-294 while one is left, then the to-do (lines 295-296)
Cascade(to_do_id, rem, op) ==
    IF rem # {}
    THEN \E s \in Earliest(rem) :
            /\ subtasks' = Delete(subtasks, s)
            /\ to_dos' = to_dos
            /\ req' = [op |-> op, id |-> to_do_id, rem |-> rem \ {s}]
            /\ pc' = "delete_with_sub" /\ response' = ""
    ELSE /\ DeleteToDo(to_do_id)
         /\ req' = [op |-> op, id |-> to_do_id, rem |-> {}]
         /\ pc' = "responded" /\ response' = "redirect:dashboard"

\* mark_done answers with a redirect to delete_with_sub (line 270): the
\* request for that to-do which follows is the second half of the completion
Redirected(to_do_id) ==
    /\ pc = "responded"
    /\ response = "redirect:delete_with_sub"
    /\ req.id = to_do_id

\* delete_with_sub up to its first commit
delete_with_sub(to_do_id) ==
    /\ pc = "idle" \/ Redirected(to_do_id)
    /\ to_do_id \in DOMAIN to_dos
    /\ Cascade(to_do_id, SubtasksOf(to_do_id),
               IF Redirected(to_do_id) THEN "mark_done" ELSE "delete_with_sub")
    /\ pre' = pre
    /\ flashed' = "" /\ all_to_dos' = <<>>
    /\ UNCHANGED <<categories, got_dones, today>>

\* each later commit of delete_with_sub
delete_with_sub_commit ==
    /\ pc = "delete_with_sub"
    /\ Cascade(req.id, req.rem, req.op)
    /\ UNCHANGED <<categories, got_dones, today, pre, flashed, all_to_dos>>

mark_done_sub(subtask_id) ==
    /\ pc = "idle"
    /\ subtask_id \in DOMAIN subtasks
    /\ NextId(got_dones) <= MaxGotDoneId
    /\ got_dones' = Insert(got_dones, GotDoneOfSubTask(subtask_id))
    /\ UNCHANGED <<categories, to_dos, subtasks>>
    /\ Returns("redirect:delete_sub", "")

delete_sub(subtask_id) ==
    /\ pc = "idle"
    /\ subtask_id \in DOMAIN subtasks
    /\ subtasks' = Delete(subtasks, subtask_id)
    /\ UNCHANGED <<categories, to_dos, got_dones>>
    /\ Returns("redirect:show_to_do", "")

\* the next commit of clear_got_done (lines 329-331); .all() names no order
Clear(rem) ==
    \E g \in rem :
        /\ got_dones' = Delete(got_dones, g)
        /\ req' = [op |-> "clear_got_done", id |-> 0, rem |-> rem \ {g}]
        /\ IF rem = {g}
           THEN pc' = "responded" /\ response' = "redirect:got_done"
           ELSE pc' = "clear_got_done" /\ response' = ""

clear_got_done ==
    /\ pc = "idle"
    /\ IF DOMAIN got_dones = {}
       THEN UNCHANGED store /\ Returns("redirect:got_done", "")
       ELSE /\ Clear(DOMAIN got_dones)
            /\ pre' = NoPre /\ flashed' = "" /\ all_to_dos' = <<>>
            /\ UNCHANGED <<categories, to_dos, subtasks, today>>

clear_got_done_commit ==
    /\ pc = "clear_got_done"
    /\ Clear(req.rem)
    /\ UNCHANGED <<categories, to_dos, subtasks, today, pre, flashed,
                   all_to_dos>>

\* the process stops between two commits of a handler: what is committed
\* stays, the rest of the handler never runs
interrupt ==
    /\ pc \notin {"idle", "responded"}
    /\ pc' = "responded"
    /\ response' = "no response"
    /\ UNCHANGED <<store, today, req, pre, flashed, all_to_dos>>

\* the response is delivered; the next request starts from a fresh session
next_request ==
    /\ pc = "responded"
    /\ pc' = "idle"
    /\ req' = NoReq /\ pre' = NoPre
    /\ response' = "" /\ flashed' = "" /\ all_to_dos' = <<>>
    /\ UNCHANGED <<store, today>>

\* midnight
tick ==
    /\ today < MaxDay
    /\ today' = today + 1
    /\ UNCHANGED <<store, pc, req, pre, response, flashed, all_to_dos>>

Next ==
    \/ dashboard
    \/ \E n \in CategoryNames : add_new_category(n)
    \/ \E c \in DOMAIN categories, n \in CategoryNames : update_category(c, n)
    \/ \E n \in ToDoNames, c \in CategoryNames, d \in Days :
          add_new_to_do(n, c, d)
    \/ \E t \in DOMAIN to_dos, n \in SubTaskNames, d \in Days :
          add_new_subtask(t, n, d)
    \/ \E t \in DOMAIN to_dos, n \in ToDoNames, c \in CategoryNames, d \in Days :
          update_to_do(t, n, c, d)
    \/ update_to_do_subtask
    \/ \E t \in DOMAIN to_dos : mark_done(t)
    \/ mark_done_subtask
    \/ \E t \in DOMAIN to_dos : delete(t)
    \/ \E t \in DOMAIN to_dos : delete_with_sub(t)
    \/ delete_with_sub_commit
    \/ \E s \in DOMAIN subtasks : mark_done_sub(s)
    \/ \E s \in DOMAIN subtasks : delete_sub(s)
    \/ clear_got_done
    \/ clear_got_done_commit
    \/ interrupt
    \/ next_request
    \/ tick

Spec == Init /\ [][Next]_vars

\* ------------------------------ claims -------------------------------- *\
\* the completion of a to-do has returned: mark_done, the redirect it
\* answers with, and delete_with_sub have all run
CompletedToDo ==
    /\ pc = "responded"
    /\ req.op = "mark_done"
    /\ response = "redirect:dashboard"

Bijections(A, B) ==
    {f \in [A -> B] : \A b \in B : \E a \in A : f[a] = b /\
                       \A a2 \in A : f[a2] = b => a2 = a}

CompletedToDoArchived ==
    LET t      == req.id
        owned  == {s \in DOMAIN pre.subtasks : pre.subtasks[s].to_do_id = t}
        new    == DOMAIN got_dones \ DOMAIN pre.got_dones
        first  == NextId(pre.got_dones)
    IN  /\ \A g \in DOMAIN pre.got_dones :
              g \in DOMAIN got_dones /\ got_dones[g] = pre.got_dones[g]
        /\ Cardinality(DOMAIN got_dones) =
              Cardinality(DOMAIN pre.got_dones) + Cardinality(owned) + 1
        /\ first \in new
        /\ got_dones[first].name = pre.to_dos[t].name
        /\ got_dones[first].category = pre.categories[pre.to_dos[t].parent_id]
        /\ \E f \in Bijections(new \ {first}, owned) :
              \A g \in new \ {first} :
                 /\ got_dones[g].name = pre.subtasks[f[g]].name
                 /\ got_dones[g].category = pre.subtasks[f[g]].category
        /\ SubtasksOf(t) = {}
        /\ DOMAIN subtasks = DOMAIN pre.subtasks \ owned
        /\ t \notin DOMAIN to_dos

\* C1: when the completion of a to-do that had n subtasks has returned, the
\* log holds exactly n + 1 records more than before it began: the first new
\* one carries the to-do's name and its category's name, the others carry,
\* one each, the name and the stored label of its subtasks; none of those
\* subtasks and not the to-do itself is left; and every record a completion
\* writes is dated with the day it is written on.
C1_CompleteToDo ==
    [][ /\ req'.op = "mark_done" =>
              \A g \in DOMAIN got_dones' \ DOMAIN got_dones :
                 got_dones'[g].date = today
        /\ CompletedToDo' => CompletedToDoArchived' ]_vars

\* the completion of a to-do that had a subtask, with a label that was not
\* the name of the to-do's category, has returned
C1_Witness ==
    /\ CompletedToDo
    /\ \E s \in DOMAIN pre.subtasks :
          /\ pre.subtasks[s].to_do_id = req.id
          /\ pre.subtasks[s].category #
                pre.categories[pre.to_dos[req.id].parent_id]

\* C2: in no durable state has the completion of a to-do written a record
\* while the to-do or one of its subtasks is still in the store, and a
\* completion never deletes a to-do whose record it has not written.
C2_Transactional ==
    req.op = "mark_done" =>
        /\ DOMAIN got_dones \ DOMAIN pre.got_dones # {} =>
              req.id \notin DOMAIN to_dos /\ SubtasksOf(req.id) = {}
        /\ req.id \notin DOMAIN to_dos =>
              DOMAIN got_dones \ DOMAIN pre.got_dones # {}

\* C3: delete of a to-do that has a subtask answers with the warning and
\* changes no table; delete of a to-do without subtasks removes that row and
\* nothing else.
C3_DeleteGuarded ==
    [][ \A t \in DOMAIN to_dos :
          delete(t) =>
             IF SubtasksOf(t) # {}
             THEN /\ store' = store
                  /\ response' = "show-to-do.html"
                  /\ flashed' = "You have subtasks that haven't been done yet!"
             ELSE /\ to_dos' = Delete(to_dos, t)
                  /\ <<categories, subtasks, got_dones>>' =
                        <<categories, subtasks, got_dones>> ]_vars

\* delete has just refused a to-do that has a subtask
C3_Witness ==
    /\ pc = "responded"
    /\ response = "show-to-do.html"
    /\ flashed = "You have subtasks that haven't been done yet!"
    /\ \E s \in DOMAIN subtasks : subtasks[s].to_do_id \in DOMAIN to_dos

\* C4: add_new_subtask with a due date after the to-do's, or before today,
\* re-renders the form and changes no table.
C4_SubtaskDateRejected ==
    [][ \A t \in DOMAIN to_dos, n \in SubTaskNames, d \in Days :
          (add_new_subtask(t, n, d) /\ (d > to_dos[t].due_date \/ d < today))
             => /\ store' = store
                /\ response' = "add-new-subtask.html" ]_vars

\* add_new_subtask has just refused a due date after the to-do's, with room
\* for the row in the table
C4_Witness ==
    /\ pc = "responded"
    /\ response = "add-new-subtask.html"
    /\ flashed = "Due Date of Subtask can't be past Due Date of To Do"
    /\ NextId(subtasks) <= MaxSubTaskId

\* C5: add_new_category with a name a category already has flashes "This
\* Category already exists!" and changes no table: one category has the name.
C5_DuplicateCategory ==
    [][ \A n \in CategoryNames :
          (add_new_category(n) /\ \E c \in DOMAIN categories : categories[c] = n)
             => /\ store' = store
                /\ flashed' = "This Category already exists!"
                /\ Cardinality({c \in DOMAIN categories' :
                                   categories'[c] = n}) = 1 ]_vars

\* add_new_category has just refused a second category of a name
C5_Witness ==
    /\ pc = "responded"
    /\ flashed = "This Category already exists!"
    /\ Cardinality(DOMAIN categories) = 2

DueWithinParent(subs, todos, s) ==
    /\ subs[s].to_do_id \in DOMAIN todos
    /\ subs[s].due_date <= todos[subs[s].to_do_id].due_date

\* C6 as stated: in every reachable state every subtask is due no later than
\* the to-do that owns it.
C6_DueWithinParentAlways ==
    \A s \in DOMAIN subtasks : DueWithinParent(subtasks, to_dos, s)

\* C6 as amended: a subtask is due no later than its to-do when
\* add_new_subtask inserts it, and a step leaves a subtask due later than
\* its to-do only if it was so before the step or the step is an update of
\* that to-do which moves the to-do's due date earlier.
C6_DueWithinParentUnlessMovedEarlier ==
    [][ \A s \in DOMAIN subtasks' :
          DueWithinParent(subtasks', to_dos', s)
          \/ /\ s \in DOMAIN subtasks
             /\ subtasks[s].due_date = subtasks'[s].due_date
             /\ subtasks[s].to_do_id = subtasks'[s].to_do_id
             /\ subtasks[s].to_do_id \in DOMAIN to_dos
             /\ subtasks[s].to_do_id \in DOMAIN to_dos'
             /\ \/ ~DueWithinParent(subtasks, to_dos, s)
                \/ /\ req'.op = "update_to_do"
                   /\ req'.id = subtasks[s].to_do_id
                   /\ to_dos'[req'.id].due_date < to_dos[req'.id].due_date
        ]_vars

\* a to-do that has a subtask due on the to-do's own day has been updated
\* and the subtask is still due within it
C6_Witness ==
    /\ pc = "responded"
    /\ req.op = "update_to_do"
    /\ \E s \in SubtasksOf(req.id) :
          /\ DueWithinParent(subtasks, to_dos, s)
          /\ subtasks[s].due_date = MaxDay

\* C7: when update_to_do has returned its redirect, every subtask of the
\* to-do is labelled with the name of the category the to-do now has, and no
\* commit of the update touches a subtask of another to-do.
C7_UpdateRelabels ==
    [][ req'.op = "update_to_do" =>
          /\ \A s \in DOMAIN subtasks :
                subtasks[s].to_do_id # req'.id =>
                   s \in DOMAIN subtasks' /\ subtasks'[s] = subtasks[s]
          /\ DOMAIN subtasks' = DOMAIN subtasks
          /\ (pc' = "responded" /\ response' = "redirect:show_to_do") =>
                \A s \in DOMAIN subtasks' :
                   subtasks'[s].to_do_id = req'.id =>
                      subtasks'[s].category =
                         categories'[to_dos'[req'.id].parent_id] ]_vars

\* update_to_do has returned for a to-do with a subtask, while a subtask of
\* another to-do keeps a label that is not the name of that to-do's category
C7_Witness ==
    /\ pc = "responded"
    /\ req.op = "update_to_do"
    /\ response = "redirect:show_to_do"
    /\ SubtasksOf(req.id) # {}
    /\ \E s \in DOMAIN subtasks :
          /\ subtasks[s].to_do_id # req.id
          /\ subtasks[s].to_do_id \in DOMAIN to_dos
          /\ subtasks[s].category # ParentCategoryName(subtasks[s].to_do_id)

C9_NoOrphanSubtask ==
    \A s \in DOMAIN subtasks : subtasks[s].to_do_id \in DOMAIN to_dos

\* delete_with_sub has committed the deletion of one subtask of a to-do and
\* has another one still to delete
C9_Witness ==
    /\ pc = "delete_with_sub"
    /\ req.rem # {}
    /\ SubtasksOf(req.id) = req.rem

\* C10: no two categories have the same name.
C10_UniqueCategoryNames ==
    \A c, d \in DOMAIN categories : c # d => categories[c] # categories[d]

\* update_category has just been refused the name of another category
C10_Witness ==
    /\ pc = "responded"
    /\ response = "500 IntegrityError"
    /\ Cardinality(DOMAIN categories) = 2
====
